---- MODULE Spec2Model ----
(***************************************************************************)
(* graphql-sqlalchemy: the filter compiler, the selection resolver and the *)
(* mutation resolvers of src/graphql_sqlalchemy/resolvers.py, run against  *)
(* one mapped model with a primary-key column "id" and a nullable integer  *)
(* column "f", through one SQLAlchemy session.                             *)
(*                                                                         *)
(* A column value is a cell: <<>> is SQL NULL (Python None), <<v>> is the  *)
(* integer v.  A table is a set of rows.  The session's transaction sees   *)
(* tx; other connections see db, the committed rows.                       *)
(*                                                                         *)
(* Relationships are run against three related models held in rel: author  *)
(* (id, f), tag (id, f) and article (id, f, author_id), with the           *)
(* association table article_tag between article and tag.                  *)
(*                                                                         *)
(* job holds the position of one insert-many call that is followed session *)
(* call by session call, with a synchronous or an asynchronous session.    *)
(***************************************************************************)
EXTENDS Integers, Sequences, FiniteSets, TLC

VARIABLES db, tx, txState, call, ret, calls, pre, ncalls, rel, job

vars == <<db, tx, txState, call, ret, calls, pre, ncalls, rel, job>>

\* Bounds of the model.
MaxId == 2
MaxVal == 1
MaxBatch == 2
\* Resolver calls in one run of the model.
MaxCalls == 2

Ids == 1..MaxId
Vals == 0..MaxVal
Null == <<>>
Cells == {Null} \cup {<<v>> : v \in Vals}
Rows == [id : Ids, f : Cells]

\* The primary-key constraint of the table.
PkUnique(T) == \A r \in T : \A s \in T : r.id = s.id => r = s
Tables == {T \in SUBSET Rows : PkUnique(T)}

Range(s) == {s[i] : i \in 1..Len(s)}
Min(S) == CHOOSE x \in S : \A y \in S : x <= y

(***************************************************************************)
(* Where Expressions.  A Python dict is a sequence of entries with         *)
(* distinct keys.  An entry of a Where Expression has a key k; for a       *)
(* column key its value is a Field Comparison (ops, a sequence of          *)
(* operator entries), for _and/_or a list of Where Expressions (subs) and  *)
(* for _not one Where Expression (subs of length 1).  An operator entry    *)
(* carries its value in arg (<<>> is None, <<v>> a scalar, any sequence a  *)
(* list for _in/_nin) or in flag (the boolean of _is_null).                *)
(***************************************************************************)
Op(o, a) == [op |-> o, arg |-> a, flag |-> FALSE]
OpFlag(o, b) == [op |-> o, arg |-> <<>>, flag |-> b]
Field(c, fops) == <<[k |-> c, ops |-> fops, subs |-> <<>>]>>
Comb(c, ws) == <<[k |-> c, ops |-> <<>>, subs |-> ws]>>
EmptyWhere == <<>>

(***************************************************************************)
(* The related models.  Author.articles is one-to-many, Article.author     *)
(* many-to-one over the foreign key author_id, Article.tags                *)
(* many-to-many through article_tag (a set of <<article id, tag id>>       *)
(* pairs: its primary key is the pair).                                    *)
(***************************************************************************)
Relationships == {"articles", "author", "tags"}
direction(name) ==
    IF name = "articles" THEN "ONETOMANY"
    ELSE IF name = "author" THEN "MANYTOONE"
    ELSE "MANYTOMANY"
\* The model a relationship leads to.
entity(name) ==
    IF name = "articles" THEN "article"
    ELSE IF name = "author" THEN "author"
    ELSE "tag"

EmptyDatabase == [author |-> {}, article |-> {}, tag |-> {}, article_tag |-> {}]

\* The rows a row is related to through a relationship.
RelatedRows(D, row, name) ==
    IF name = "articles" THEN {a \in D.article : a.author_id = <<row.id>>}
    ELSE IF name = "author" THEN {b \in D.author : row.author_id = <<b.id>>}
    ELSE {t \in D.tag : <<row.id, t.id>> \in D.article_tag}

(***************************************************************************)
(* SQL expressions as the compiler builds them: a tree of nodes.           *)
(***************************************************************************)
Node(kind, c, o, a, children) ==
    [t |-> kind, col |-> c, op |-> o, arg |-> a, cs |-> children,
     exc |-> "", msg |-> ""]
true == Node("true", "", "", <<>>, <<>>)
Cmp(c, o, a) == Node("cmp", c, o, a, <<>>)
Raise(e, m) ==
    [t |-> "raise", col |-> "", op |-> "", arg |-> <<>>, cs |-> <<>>,
     exc |-> e, msg |-> m]

\* A Python call whose argument list raises propagates the first exception.
Raising(cs) == {i \in 1..Len(cs) : cs[i].t = "raise"}
Call(cs, node) == IF Raising(cs) # {} THEN cs[Min(Raising(cs))] ELSE node

false == Node("false", "", "", <<>>, <<>>)

(***************************************************************************)
(* sqlalchemy.and_ / or_ (BooleanClauseList): called with no clause they   *)
(* build an empty list that renders as a blank SQL string; a clause that   *)
(* is the absorbing constant decides the list, the neutral constant is     *)
(* dropped, a single remaining clause is returned as it is, and of several *)
(* remaining clauses those that are lists of the same operator are         *)
(* replaced by their own clauses.                                          *)
(***************************************************************************)
RECURSIVE Flattened(_, _)
Flattened(kind, cs) ==
    IF cs = <<>> THEN <<>>
    ELSE (IF Head(cs).t = kind THEN Head(cs).cs ELSE <<Head(cs)>>)
         \o Flattened(kind, Tail(cs))

BooleanClauseList(kind, continue_on, skip_on, cs) ==
    IF Len(cs) = 0 THEN Node(kind, "", "", <<>>, <<>>)
    ELSE IF \E i \in 1..Len(cs) : cs[i].t = skip_on
    THEN Node(skip_on, "", "", <<>>, <<>>)
    ELSE LET rest == SelectSeq(cs, LAMBDA c : c.t # continue_on)
         IN  IF Len(rest) = 0 THEN Node(continue_on, "", "", <<>>, <<>>)
             ELSE IF Len(rest) = 1 THEN rest[1]
             ELSE Node(kind, "", "", <<>>, Flattened(kind, rest))

and_(cs) == Call(cs, BooleanClauseList("and", "true", "false", cs))
or_(cs) == Call(cs, BooleanClauseList("or", "false", "true", cs))
not_(c) ==
    Call(<<c>>, IF c.t = "true" THEN false
                ELSE IF c.t = "false" THEN true
                ELSE Node("not", "", "", <<>>, <<c>>))

get_bool_operation_without_gte(c, operator, value, flag) ==
    IF operator = "_eq" THEN Cmp(c, "eq", value)
    ELSE IF operator = "_in" THEN Cmp(c, "in", value)
    ELSE IF operator = "_is_null" THEN Cmp(c, "is_null", <<>>)
    ELSE IF operator = "_like" THEN Cmp(c, "like", value)
    ELSE IF operator = "_neq" THEN Cmp(c, "ne", value)
    ELSE IF operator = "_nin" THEN Cmp(c, "notin", value)
    ELSE IF operator = "_nlike" THEN Cmp(c, "notlike", value)
    ELSE IF operator = "_lt" THEN Cmp(c, "lt", value)
    ELSE IF operator = "_gt" THEN Cmp(c, "gt", value)
    ELSE IF operator = "_lte" THEN Cmp(c, "le", value)
    ELSE Raise("Exception", "Invalid operator")

get_bool_operation_nin_as_in(c, operator, value, flag) ==
    IF operator = "_eq" THEN Cmp(c, "eq", value)
    ELSE IF operator = "_in" THEN Cmp(c, "in", value)
    ELSE IF operator = "_is_null" THEN Cmp(c, "is_null", <<>>)
    ELSE IF operator = "_like" THEN Cmp(c, "like", value)
    ELSE IF operator = "_neq" THEN Cmp(c, "ne", value)
    ELSE IF operator = "_nin" THEN Cmp(c, "in", value)
    ELSE IF operator = "_nlike" THEN Cmp(c, "notlike", value)
    ELSE IF operator = "_lt" THEN Cmp(c, "lt", value)
    ELSE IF operator = "_gt" THEN Cmp(c, "gt", value)
    ELSE IF operator = "_lte" THEN Cmp(c, "le", value)
    ELSE IF operator = "_gte" THEN Cmp(c, "ge", value)
    ELSE Raise("Exception", "Invalid operator")

\* get_bool_operation: the boolean given to _is_null (flag) is not read.
get_bool_operation(c, operator, value, flag) ==
    IF operator = "_eq" THEN Cmp(c, "eq", value)
    ELSE IF operator = "_in" THEN Cmp(c, "in", value)
    ELSE IF operator = "_is_null" THEN Cmp(c, "is_null", <<>>)
    ELSE IF operator = "_like" THEN Cmp(c, "like", value)
    ELSE IF operator = "_neq" THEN Cmp(c, "ne", value)
    ELSE IF operator = "_nin" THEN Cmp(c, "notin", value)
    ELSE IF operator = "_nlike" THEN Cmp(c, "notlike", value)
    ELSE IF operator = "_lt" THEN Cmp(c, "lt", value)
    ELSE IF operator = "_gt" THEN Cmp(c, "gt", value)
    ELSE IF operator = "_lte" THEN Cmp(c, "le", value)
    ELSE IF operator = "_gte" THEN Cmp(c, "ge", value)
    ELSE Raise("Exception", "Invalid operator")

empty_filter_false == false

\* get_filter_operation, the empty Where Expression.
empty_filter == true

combinator_and_as_or(name, compiled) ==
    IF name = "_or" THEN or_(compiled)
    ELSE IF name = "_not" THEN not_(compiled[1])
    ELSE or_(compiled)

combinator_not_dropped(name, compiled) ==
    IF name = "_or" THEN or_(compiled)
    ELSE IF name = "_not" THEN compiled[1]
    ELSE and_(compiled)

\* get_filter_operation, a single _or / _not / _and key over the compiled
\* sub-expressions.
combinator(name, compiled) ==
    IF name = "_or" THEN or_(compiled)
    ELSE IF name = "_not" THEN not_(compiled[1])
    ELSE and_(compiled)

relationship_filter_any_unfiltered(name, elem_filter) ==
    IF direction(name) \in {"ONETOMANY", "MANYTOMANY"}
    THEN Call(<<elem_filter>>, Node("any", name, "", <<>>, <<true>>))
    ELSE Call(<<elem_filter>>, Node("to_one", name, "", <<>>, <<elem_filter>>))

relationship_filter_join_unfiltered(name, elem_filter) ==
    IF direction(name) \in {"ONETOMANY", "MANYTOMANY"}
    THEN Call(<<elem_filter>>, Node("any", name, "", <<>>, <<elem_filter>>))
    ELSE Call(<<elem_filter>>, Node("to_one", name, "", <<>>, <<true>>))

\* get_filter_operation, a relationship key: any() of the compiled nested
\* expression for a collection, the relationship's join condition extended
\* with it (PropComparator.and_) for a single related row.
relationship_filter(name, elem_filter) ==
    IF direction(name) \in {"ONETOMANY", "MANYTOMANY"}
    THEN Call(<<elem_filter>>, Node("any", name, "", <<>>, <<elem_filter>>))
    ELSE Call(<<elem_filter>>, Node("to_one", name, "", <<>>, <<elem_filter>>))

RECURSIVE get_filter_operation(_)
\* get_filter_operation with the keys of one level and the operators of one
\* field joined by or_.
get_filter_operation_ored(where) ==
    IF Len(where) = 0 THEN empty_filter
    ELSE IF Len(where) > 1
    THEN or_([i \in 1..Len(where) |-> get_filter_operation(<<where[i]>>)])
    ELSE LET name == where[1].k
             subs == where[1].subs
             exprs == where[1].ops
         IN  IF name \in {"_or", "_not", "_and"}
             THEN combinator(name, [i \in 1..Len(subs) |->
                                      get_filter_operation(subs[i])])
             ELSE IF name \in Relationships
             THEN relationship_filter(name, get_filter_operation(subs[1]))
             ELSE or_([i \in 1..Len(exprs) |->
                         get_bool_operation(name, exprs[i].op, exprs[i].arg,
                                            exprs[i].flag)])

get_filter_operation(where) ==
    IF Len(where) = 0 THEN empty_filter
    ELSE IF Len(where) > 1
    THEN and_([i \in 1..Len(where) |-> get_filter_operation(<<where[i]>>)])
    ELSE LET name == where[1].k
             subs == where[1].subs
             exprs == where[1].ops
         IN  IF name \in {"_or", "_not", "_and"}
             THEN combinator(name, [i \in 1..Len(subs) |->
                                      get_filter_operation(subs[i])])
             ELSE IF name \in Relationships
             THEN relationship_filter(name, get_filter_operation(subs[1]))
             ELSE and_([i \in 1..Len(exprs) |->
                          get_bool_operation(name, exprs[i].op, exprs[i].arg,
                                             exprs[i].flag)])

(***************************************************************************)
(* The backend: SQL three-valued logic ("T", "F", "U" for UNKNOWN).        *)
(***************************************************************************)
Bool3(b) == IF b THEN "T" ELSE "F"
Not3(v) == IF v = "T" THEN "F" ELSE IF v = "F" THEN "T" ELSE "U"

CellOf(row, c) == IF c = "id" THEN <<row.id>> ELSE row[c]

\* One comparison on one row.  A comparison with None renders IS [NOT] NULL
\* for = and != and is UNKNOWN for the others; IN of an empty list is false
\* and NOT IN of an empty list true whatever the column holds; a LIKE
\* pattern is the decimal text of arg, without wildcards.
EvalCmp(p, row) ==
    LET v == CellOf(row, p.col)
        a == p.arg
        in3 == IF a = <<>> THEN "F"
               ELSE IF v = Null THEN "U"
               ELSE Bool3(v[1] \in Range(a))
        eq3 == IF a = Null THEN Bool3(v = Null)
               ELSE IF v = Null THEN "U"
               ELSE Bool3(v[1] = a[1])
        like3 == IF a = Null \/ v = Null THEN "U" ELSE Bool3(v[1] = a[1])
    IN  IF p.op = "is_null" THEN Bool3(v = Null)
        ELSE IF p.op = "in" THEN in3
        ELSE IF p.op = "notin" THEN Not3(in3)
        ELSE IF p.op = "eq" THEN eq3
        ELSE IF p.op = "ne" THEN Not3(eq3)
        ELSE IF p.op = "like" THEN like3
        ELSE IF p.op = "notlike" THEN Not3(like3)
        ELSE IF a = Null \/ v = Null THEN "U"
        ELSE IF p.op = "lt" THEN Bool3(v[1] < a[1])
        ELSE IF p.op = "gt" THEN Bool3(v[1] > a[1])
        ELSE IF p.op = "le" THEN Bool3(v[1] <= a[1])
        ELSE Bool3(v[1] >= a[1])

And3(a, b) ==
    IF a = "F" \/ b = "F" THEN "F"
    ELSE IF a = "U" \/ b = "U" THEN "U"
    ELSE "T"

\* A row of a FROM list of two tables: the row of the selected entity with
\* the row of the other table under "joined".
Ext(r, other) ==
    [x \in DOMAIN r \cup {"joined"} |-> IF x = "joined" THEN other ELSE r[x]]
Entity(r) == [x \in DOMAIN r \ {"joined"} |-> r[x]]

\* An expression that renders as a blank SQL string.
RECURSIVE Blank(_)
Blank(p) ==
    /\ p.t \in {"and", "or"}
    /\ \A i \in 1..Len(p.cs) : Blank(p.cs[i])

\* The rendered statement is malformed: NOT of a blank operand, or a blank
\* list that is parenthesised ("()") inside an operator of higher precedence.
RECURSIVE SqlError(_)
SqlError(p) ==
    \/ /\ p.t = "not"
       /\ Blank(p.cs[1]) \/ SqlError(p.cs[1])
    \/ /\ p.t \in {"any", "to_one"}
       /\ SqlError(p.cs[1])
    \/ /\ p.t \in {"and", "or"}
       /\ \E i \in 1..Len(p.cs) :
             \/ SqlError(p.cs[i])
             \/ /\ Blank(p.cs[i])
                /\ Len(p.cs[i].cs) > 0
                /\ p.t = "and"
                /\ p.cs[i].t = "or"

\* The truth value of a rendered expression on one row; blank members of a
\* list are left out of it and a blank WHERE clause is no WHERE clause.
\* any() is EXISTS over the related rows; the join condition of a to-one
\* relationship compares the row's foreign key with the other table of the
\* FROM list; the primary-key filter of a parent reads that table too.
RECURSIVE Eval3(_, _)
Eval3(p, row) ==
    IF p.t = "true" THEN "T"
    ELSE IF p.t = "false" THEN "F"
    ELSE IF p.t = "cmp" THEN EvalCmp(p, row)
    ELSE IF p.t = "pk" THEN Bool3(row.joined.id = p.arg[1])
    ELSE IF p.t = "any"
    THEN Bool3(\E r \in RelatedRows(rel, row, p.col) :
                  Blank(p.cs[1]) \/ Eval3(p.cs[1], r) = "T")
    ELSE IF p.t = "to_one"
    THEN And3(IF row.author_id = Null THEN "U"
              ELSE Bool3(row.author_id[1] = row.joined.id),
              IF Blank(p.cs[1]) THEN "T" ELSE Eval3(p.cs[1], row.joined))
    ELSE IF p.t = "not" THEN Not3(Eval3(p.cs[1], row))
    ELSE LET kids == {i \in 1..Len(p.cs) : ~Blank(p.cs[i])}
         IN  IF kids = {} THEN "T"
             ELSE IF p.t = "and"
             THEN (IF \E i \in kids : Eval3(p.cs[i], row) = "F" THEN "F"
                   ELSE IF \E i \in kids : Eval3(p.cs[i], row) = "U" THEN "U"
                   ELSE "T")
             ELSE (IF \E i \in kids : Eval3(p.cs[i], row) = "T" THEN "T"
                   ELSE IF \E i \in kids : Eval3(p.cs[i], row) = "U" THEN "U"
                   ELSE "F")

(***************************************************************************)
(* Statements.  A statement carries its WHERE criteria (crit), the ORDER   *)
(* BY list, LIMIT and OFFSET (a cell: <<>> when not set) and, for an       *)
(* UPDATE, the assigned values.                                            *)
(***************************************************************************)
Statement == [crit |-> <<>>, order |-> <<>>, limit |-> Null, offset |-> Null,
              inc |-> <<>>, set |-> <<>>, exc |-> "", msg |-> ""]

\* A statement whose construction raised.
Failed(stmt) == stmt.exc # ""

\* filter_selection selecting no row for the empty Where Expression.
filter_selection_none_when_empty(selection, where) ==
    LET crit == get_filter_operation(where)
    IN  IF crit.t = "raise"
        THEN [selection EXCEPT !.exc = crit.exc, !.msg = crit.msg]
        ELSE IF Len(where) = 0
        THEN [selection EXCEPT !.crit = Append(@, false)]
        ELSE [selection EXCEPT !.crit = Append(@, crit)]

filter_selection(selection, where) ==
    LET crit == get_filter_operation(where)
    IN  IF crit.t = "raise"
        THEN [selection EXCEPT !.exc = crit.exc, !.msg = crit.msg]
        ELSE [selection EXCEPT !.crit = Append(@, crit)]

\* order_selection with the keys appended in the opposite priority.
order_selection_reversed(selection, order) ==
    IF Len(order) = 0 THEN selection
    ELSE [selection EXCEPT
            !.order = @ \o [i \in 1..Len(order) |-> order[Len(order) + 1 - i]]]

order_selection(selection, order) ==
    IF Len(order) = 0 THEN selection
    ELSE [selection EXCEPT !.order = @ \o order]

\* resolve_filtered with `if limit is not None` in place of `if limit`.
resolve_filtered_zero_limit(selection, where, order, limit, offset) ==
    LET filtered == filter_selection(selection, where)
        ordered == order_selection(filtered, order)
        limited == IF limit # Null
                   THEN [ordered EXCEPT !.limit = limit] ELSE ordered
    IN  IF Failed(filtered) THEN filtered
        ELSE IF offset # Null /\ offset[1] # 0
        THEN [limited EXCEPT !.offset = offset] ELSE limited

resolve_filtered(selection, where, order, limit, offset) ==
    LET filtered == filter_selection(selection, where)
        ordered == order_selection(filtered, order)
        limited == IF limit # Null /\ limit[1] # 0
                   THEN [ordered EXCEPT !.limit = limit] ELSE ordered
    IN  IF Failed(filtered) THEN filtered
        ELSE IF offset # Null /\ offset[1] # 0
        THEN [limited EXCEPT !.offset = offset] ELSE limited

\* The WHERE clause of a statement: its criteria joined by AND.
WhereClause(stmt) == BooleanClauseList("and", "true", "false", stmt.crit)

\* The rows of T a statement's WHERE clause selects.
Matching(T, stmt) == {r \in T : Eval3(WhereClause(stmt), r) = "T"}

\* The rows of a set in the order of a table scan (primary-key order).
RECURSIVE Scan(_)
Scan(S) ==
    IF S = {} THEN <<>>
    ELSE LET r == CHOOSE x \in S : \A y \in S : x.id <= y.id
         IN  <<r>> \o Scan(S \ {r})

\* One ORDER BY comparison: a before b under the listed keys, NULL first
\* ascending, ties left in scan order.
RECURSIVE Before(_, _, _)
Before(order, a, b) ==
    IF Len(order) = 0 THEN FALSE
    ELSE LET x == CellOf(a, order[1].name)
             y == CellOf(b, order[1].name)
             lt == IF x = Null THEN y # Null
                   ELSE y # Null /\ x[1] < y[1]
             gt == IF y = Null THEN x # Null
                   ELSE x # Null /\ y[1] < x[1]
         IN  IF x = y THEN Before(Tail(order), a, b)
             ELSE IF order[1].direction = "asc" THEN lt ELSE gt

\* OFFSET and LIMIT taken from the scan, ORDER BY applied to the slice.
SliceSort(rows, stmt) ==
    LET from == IF stmt.offset = Null THEN 0 ELSE stmt.offset[1]
        upto == IF stmt.limit = Null THEN Len(rows)
                ELSE from + stmt.limit[1]
        slice == SubSeq(rows, from + 1, IF upto < Len(rows) THEN upto ELSE Len(rows))
    IN  SortSeq(slice, LAMBDA a, b : Before(stmt.order, a, b))

\* ORDER BY, then OFFSET and LIMIT, on the rows a statement selected.
SortSlice(rows, stmt) ==
    LET sorted == SortSeq(rows, LAMBDA a, b : Before(stmt.order, a, b))
        from == IF stmt.offset = Null THEN 0 ELSE stmt.offset[1]
        upto == IF stmt.limit = Null THEN Len(sorted)
                ELSE from + stmt.limit[1]
    IN  SubSeq(sorted, from + 1, IF upto < Len(sorted) THEN upto ELSE Len(sorted))

\* Executing a SELECT on T: filter, sort, then slice.
Select(T, stmt) == SortSlice(Scan(Matching(T, stmt)), stmt)

(***************************************************************************)
(* Results of a resolver call, as the GraphQL executor receives them.      *)
(***************************************************************************)
Ret(kind, rs, n) ==
    [kind |-> kind, rows |-> rs, affected_rows |-> n, exc |-> "", msg |-> ""]
Raised(e, m) ==
    [kind |-> "raise", rows |-> <<>>, affected_rows |-> 0, exc |-> e, msg |-> m]
InsDel(n, rs) == Ret("InsDel", rs, n)
Instance(r) == Ret("instance", <<r>>, 0)
None == Ret("None", <<>>, 0)
Sequence(rs) == Ret("list", rs, 0)

NoCall == [op |-> "", where |-> <<>>, objects |-> <<>>, on_conflict |-> <<>>,
           pk |-> 0, set |-> <<>>, inc |-> <<>>, order |-> <<>>,
           limit |-> Null, offset |-> Null, model |-> "", field |-> "",
           root |-> <<>>]

\* What every resolver call records: its arguments, what it returned or
\* raised, the session methods it called in order, and the rows seen by the
\* transaction and by other connections when it was called.
Record(c, r, log) ==
    /\ call' = c
    /\ ret' = r
    /\ calls' = log
    /\ pre' = [tx |-> tx, db |-> db, txState |-> txState]

(***************************************************************************)
(* The session.  While a resolver runs, the unit of work holds the rows    *)
(* of the transaction with the changes made to loaded instances (cur) and  *)
(* the instances added but not yet inserted (new).                         *)
(***************************************************************************)
UnitOfWork(T) == [cur |-> T, new |-> <<>>]

KeysOf(T) == {r.id : r \in T}
RowOf(T, k) == CHOOSE r \in T : r.id = k

\* resolvers.py session_add_object, lines 299-301: a fresh instance with the
\* provided attributes; an attribute that was not provided reads None.
NewInstance(obj) == [id |-> obj.id, f |-> IF obj.hasF THEN obj.f ELSE Null]

\* Session.merge: looks the key up among the persistent rows (identity map,
\* then database; pending instances are in neither) and copies the provided
\* attributes onto the row found; adds a new pending instance otherwise.
SessionMerge(uow, obj) ==
    IF obj.id \in KeysOf(uow.cur)
    THEN LET old == RowOf(uow.cur, obj.id)
             merged == [old EXCEPT !.f = IF obj.hasF THEN obj.f ELSE @]
         IN  [uow EXCEPT !.cur = (@ \ {old}) \cup {merged}]
    ELSE [uow EXCEPT !.new = Append(@, NewInstance(obj))]

SessionAdd(uow, obj) == [uow EXCEPT !.new = Append(@, NewInstance(obj))]

merge_when_on_conflict_given(on_conflict) == on_conflict # <<>>

\* session_add_object, line 298.
Merge(on_conflict) == on_conflict # <<>> /\ on_conflict[1]

session_add_object(uow, obj, on_conflict) ==
    IF Merge(on_conflict) THEN SessionMerge(uow, obj) ELSE SessionAdd(uow, obj)

RECURSIVE AddObjects(_, _, _)
AddObjects(uow, objects, on_conflict) ==
    IF Len(objects) = 0 THEN uow
    ELSE AddObjects(session_add_object(uow, objects[1], on_conflict),
                    Tail(objects), on_conflict)

\* Session.flush: the pending INSERTs violate the primary key when a new
\* instance has the key of a row of the table or of another new instance.
FlushConflict(uow) ==
    \/ \E i \in 1..Len(uow.new) : uow.new[i].id \in KeysOf(uow.cur)
    \/ \E i \in 1..Len(uow.new) : \E j \in 1..Len(uow.new) :
          i # j /\ uow.new[i].id = uow.new[j].id

Flushed(uow) == uow.cur \cup Range(uow.new)

\* A flush that fails rolls the session's transaction back and leaves it
\* inactive until the owner of the session calls rollback.
Flush(uow, c, ok, log) ==
    IF FlushConflict(uow)
    THEN /\ tx' = db
         /\ txState' = "inactive"
         /\ Record(c, Raised("IntegrityError", "UNIQUE constraint failed"), log)
    ELSE /\ tx' = Flushed(uow)
         /\ txState' = "active"
         /\ Record(c, ok, log)

\* Every session method raises while the transaction is inactive.
Inactive(c, log) ==
    /\ txState = "inactive"
    /\ Record(c, Raised("PendingRollbackError", "rolled back during flush"), log)
    /\ UNCHANGED <<db, tx, txState>>

\* A statement that cannot be built or executed: the exception leaves the
\* transaction as it was.
StatementError(stmt) == Failed(stmt) \/ SqlError(WhereClause(stmt))
StatementRaised(stmt) ==
    IF Failed(stmt) THEN Raised(stmt.exc, stmt.msg)
    ELSE Raised("DBAPIError", "syntax error")

(***************************************************************************)
(* Arguments the GraphQL layer can pass.                                   *)
(***************************************************************************)
Objects == {o \in [id : Ids, f : Cells, hasF : BOOLEAN] : ~o.hasF => o.f = Null}
Batches == UNION {[1..n -> Objects] : n \in 0..MaxBatch}
OnConflicts == {<<>>, <<FALSE>>, <<TRUE>>}

Assign(c, v) == [col |-> c, val |-> v]
Sets == {<<>>} \cup {<<Assign("f", v)>> : v \in Cells}
               \cup {<<Assign("id", <<k>>)>> : k \in Ids}
Incs == {<<>>, <<Assign("f", <<1>>)>>}

MutationWheres ==
    {EmptyWhere, Comb("_or", <<>>), Field("f", <<OpFlag("_is_null", TRUE)>>),
     Field("f", <<Op("_regex", <<0>>)>>)}
    \cup {Field("f", <<Op("_eq", <<v>>)>>) : v \in Vals}
    \cup {Field("id", <<Op("_lte", <<k>>)>>) : k \in Ids}

(***************************************************************************)
(* Read resolvers.                                                         *)
(***************************************************************************)
\* make_object_resolver: resolve_filtered, then all_scalars.
ObjectResolver(where, order, limit, offset) ==
    LET c == [NoCall EXCEPT !.op = "object", !.where = where, !.order = order,
                            !.limit = limit, !.offset = offset]
        selection == resolve_filtered(Statement, where, order, limit, offset)
    IN  /\ UNCHANGED <<db, tx, txState>>
        /\ IF Failed(selection)
           THEN Record(c, StatementRaised(selection), <<>>)
           ELSE IF txState = "inactive"
           THEN Record(c, Raised("PendingRollbackError", "rolled back during flush"),
                       <<"scalars">>)
           ELSE IF StatementError(selection)
           THEN Record(c, StatementRaised(selection), <<"scalars">>)
           ELSE Record(c, Sequence(Select(tx, selection)), <<"scalars">>)

\* make_pk_resolver: Session.get_one raises NoResultFound when no row has
\* the key.
PkResolver(k) ==
    LET c == [NoCall EXCEPT !.op = "by_pk", !.pk = k]
    IN  \/ Inactive(c, <<"get_one">>)
        \/ /\ txState = "active"
           /\ UNCHANGED <<db, tx, txState>>
           /\ IF k \in KeysOf(tx)
              THEN Record(c, Instance(RowOf(tx, k)), <<"get_one">>)
              ELSE Record(c, Raised("NoResultFound", "No row was found"),
                          <<"get_one">>)

(***************************************************************************)
(* Mutation resolvers (the synchronous path of each).                      *)
(***************************************************************************)
AddLog(objects, on_conflict) ==
    [i \in 1..Len(objects) |-> IF Merge(on_conflict) THEN "merge" ELSE "add"]

\* make_insert_resolver
InsertResolver(objects, on_conflict) ==
    LET c == [NoCall EXCEPT !.op = "insert", !.objects = objects,
                            !.on_conflict = on_conflict]
        log == <<"no_autoflush">> \o AddLog(objects, on_conflict) \o <<"flush">>
        models == [i \in 1..Len(objects) |-> NewInstance(objects[i])]
        rv == InsDel(Len(models), models)
    IN  IF txState = "inactive"
        THEN IF Len(objects) = 0
             THEN /\ Record(c, rv, log)
                  /\ UNCHANGED <<db, tx, txState>>
             ELSE Inactive(c, log)
        ELSE /\ Flush(AddObjects(UnitOfWork(tx), objects, on_conflict), c, rv, log)
             /\ UNCHANGED db

InsertOneResolver_swallowing(object, on_conflict) ==
    LET c == [NoCall EXCEPT !.op = "insert_one", !.objects = <<object>>,
                            !.on_conflict = on_conflict]
        log == AddLog(<<object>>, on_conflict) \o <<"flush">>
        uow == session_add_object(UnitOfWork(tx), object, on_conflict)
    IN  \/ Inactive(c, log)
        \/ /\ txState = "active"
           /\ tx' = IF FlushConflict(uow) THEN db ELSE Flushed(uow)
           /\ txState' = IF FlushConflict(uow) THEN "inactive" ELSE "active"
           /\ Record(c, Instance(NewInstance(object)), log)
           /\ UNCHANGED db

\* make_insert_one_resolver returning the envelope of make_insert_resolver.
InsertOneResolver_envelope(object, on_conflict) ==
    LET c == [NoCall EXCEPT !.op = "insert_one", !.objects = <<object>>,
                            !.on_conflict = on_conflict]
        log == AddLog(<<object>>, on_conflict) \o <<"flush">>
    IN  \/ Inactive(c, log)
        \/ /\ txState = "active"
           /\ Flush(session_add_object(UnitOfWork(tx), object, on_conflict),
                    c, InsDel(1, <<NewInstance(object)>>), log)
           /\ UNCHANGED db

\* make_insert_one_resolver
InsertOneResolver(object, on_conflict) ==
    LET c == [NoCall EXCEPT !.op = "insert_one", !.objects = <<object>>,
                            !.on_conflict = on_conflict]
        log == AddLog(<<object>>, on_conflict) \o <<"flush">>
    IN  \/ Inactive(c, log)
        \/ /\ txState = "active"
           /\ Flush(session_add_object(UnitOfWork(tx), object, on_conflict),
                    c, Instance(NewInstance(object)), log)
           /\ UNCHANGED db

\* make_delete_resolver with the where argument left out of the statement.
DeleteResolver_unfiltered(where) ==
    LET c == [NoCall EXCEPT !.op = "delete", !.where = where]
        objs == Scan(tx)
    IN  \/ Inactive(c, <<"scalars">>)
        \/ /\ txState = "active"
           /\ UNCHANGED <<db, txState>>
           /\ tx' = {}
           /\ Record(c, InsDel(Len(objs), objs), <<"scalars", "flush">>)

\* make_delete_resolver ending its transaction with a commit of its own.
DeleteResolver_committing(where) ==
    LET c == [NoCall EXCEPT !.op = "delete", !.where = where]
        deletion == filter_selection(Statement, where)
        objs == Scan(Matching(tx, deletion))
    IN  /\ txState = "active"
        /\ ~StatementError(deletion)
        /\ tx' = tx \ Range(objs)
        /\ db' = tx'
        /\ UNCHANGED txState
        /\ Record(c, InsDel(Len(objs), objs), <<"scalars", "flush", "commit">>)

\* make_delete_resolver: DELETE ... RETURNING, then flush.
DeleteResolver(where) ==
    LET c == [NoCall EXCEPT !.op = "delete", !.where = where]
        deletion == filter_selection(Statement, where)
        objs == Scan(Matching(tx, deletion))
    IN  IF Failed(deletion)
        THEN /\ Record(c, StatementRaised(deletion), <<>>)
             /\ UNCHANGED <<db, tx, txState>>
        ELSE \/ Inactive(c, <<"scalars">>)
             \/ /\ txState = "active"
                /\ UNCHANGED <<db, txState>>
                /\ IF StatementError(deletion)
                   THEN /\ Record(c, StatementRaised(deletion), <<"scalars">>)
                        /\ UNCHANGED tx
                   ELSE /\ tx' = tx \ Range(objs)
                        /\ Record(c, InsDel(Len(objs), objs), <<"scalars", "flush">>)

\* make_delete_by_pk_resolver with Session.get_one in place of Session.get.
DeleteByPkResolver_get_one(k) ==
    LET c == [NoCall EXCEPT !.op = "delete_by_pk", !.pk = k]
    IN  \/ Inactive(c, <<"get_one">>)
        \/ /\ txState = "active"
           /\ UNCHANGED <<db, txState>>
           /\ IF k \notin KeysOf(tx)
              THEN /\ Record(c, Raised("NoResultFound", "No row was found"),
                              <<"get_one">>)
                   /\ UNCHANGED tx
              ELSE /\ tx' = tx \ {RowOf(tx, k)}
                   /\ Record(c, Instance(RowOf(tx, k)),
                              <<"get_one", "delete", "flush">>)

\* make_delete_by_pk_resolver
DeleteByPkResolver(k) ==
    LET c == [NoCall EXCEPT !.op = "delete_by_pk", !.pk = k]
    IN  \/ Inactive(c, <<"get">>)
        \/ /\ txState = "active"
           /\ UNCHANGED <<db, txState>>
           /\ IF k \notin KeysOf(tx)
              THEN /\ Record(c, None, <<"get">>)
                   /\ UNCHANGED tx
              ELSE /\ tx' = tx \ {RowOf(tx, k)}
                   /\ Record(c, Instance(RowOf(tx, k)), <<"get", "delete", "flush">>)

\* The value an UPDATE assigns to column c of a row: the last values() call
\* naming the column wins, and _set is applied after _inc.
Assigned(entries, c) == {i \in 1..Len(entries) : entries[i].col = c}
Plus(cell, d) == IF cell = Null \/ d = Null THEN Null ELSE <<cell[1] + d[1]>>
NewCell(row, c, _set, _inc) ==
    IF Assigned(_set, c) # {} THEN _set[Min(Assigned(_set, c))].val
    ELSE IF Assigned(_inc, c) # {}
    THEN Plus(CellOf(row, c), _inc[Min(Assigned(_inc, c))].val)
    ELSE CellOf(row, c)
Updated(row, stmt) ==
    [id |-> NewCell(row, "id", stmt.set, stmt.inc)[1],
     f |-> NewCell(row, "f", stmt.set, stmt.inc)]

\* update_selection without the `if _inc` branch.
update_selection_set_only(selection, _set, _inc) ==
    IF Len(_set) # 0 THEN [selection EXCEPT !.set = _set] ELSE selection

\* update_selection with values(**_set) before values(**to_increment): the
\* increment of a column named in both replaces its literal.
update_selection_set_first(selection, _set, _inc) ==
    LET kept == SelectSeq(_set, LAMBDA a : \A i \in 1..Len(_inc) : _inc[i].col # a.col)
        assigned == IF Len(kept) # 0 THEN [selection EXCEPT !.set = kept]
                    ELSE selection
    IN  IF Len(_inc) # 0 THEN [assigned EXCEPT !.inc = _inc] ELSE assigned

update_selection(selection, _set, _inc) ==
    LET incremented == IF Len(_inc) # 0 THEN [selection EXCEPT !.inc = _inc]
                       ELSE selection
    IN  IF Len(_set) # 0 THEN [incremented EXCEPT !.set = _set] ELSE incremented

\* Executing UPDATE ... RETURNING on T: the rows after the statement, in scan
\* order of the rows it matched.
UpdateResult(T, stmt) ==
    LET old == Scan(Matching(T, stmt))
    IN  [i \in 1..Len(old) |-> Updated(old[i], stmt)]
UpdateConflict(T, stmt) ==
    LET new == UpdateResult(T, stmt)
        kept == T \ Matching(T, stmt)
    IN  \/ \E i \in 1..Len(new) : new[i].id \in KeysOf(kept)
        \/ \E i \in 1..Len(new) : \E j \in 1..Len(new) :
              i # j /\ new[i].id = new[j].id
AfterUpdate(T, stmt) == (T \ Matching(T, stmt)) \cup Range(UpdateResult(T, stmt))

\* make_update_resolver
UpdateResolver(where, _set, _inc) ==
    LET c == [NoCall EXCEPT !.op = "update", !.where = where, !.set = _set,
                            !.inc = _inc]
        filtered == filter_selection(Statement, where)
        selection == update_selection(filtered, _set, _inc)
        result == UpdateResult(tx, selection)
    IN  IF Failed(filtered)
        THEN /\ Record(c, StatementRaised(filtered), <<>>)
             /\ UNCHANGED <<db, tx, txState>>
        ELSE \/ Inactive(c, <<"scalars">>)
             \/ /\ txState = "active"
                /\ UNCHANGED <<db, txState>>
                /\ IF StatementError(selection)
                   THEN /\ Record(c, StatementRaised(selection), <<"scalars">>)
                        /\ UNCHANGED tx
                   ELSE IF UpdateConflict(tx, selection)
                   THEN /\ Record(c, Raised("IntegrityError", "UNIQUE constraint failed"),
                                   <<"scalars">>)
                        /\ UNCHANGED tx
                   ELSE /\ tx' = AfterUpdate(tx, selection)
                        /\ Record(c, InsDel(Len(result), result), <<"scalars", "flush">>)

\* make_update_by_pk_resolver without filter_by(**pk_columns).
UpdateByPkResolver_unfiltered(k, _set, _inc) ==
    LET c == [NoCall EXCEPT !.op = "update_by_pk", !.pk = k, !.set = _set,
                            !.inc = _inc]
        selection == update_selection(Statement, _set, _inc)
        result == UpdateResult(tx, selection)
    IN  \/ Inactive(c, <<"execute">>)
        \/ /\ txState = "active"
           /\ UNCHANGED <<db, txState>>
           /\ IF UpdateConflict(tx, selection)
              THEN /\ Record(c, Raised("IntegrityError", "UNIQUE constraint failed"),
                              <<"execute">>)
                   /\ UNCHANGED tx
              ELSE IF Len(result) = 0
              THEN /\ Record(c, None, <<"execute">>)
                   /\ UNCHANGED tx
              ELSE /\ tx' = AfterUpdate(tx, selection)
                   /\ Record(c, Instance(result[1]), <<"execute", "flush">>)

\* make_update_by_pk_resolver: the row is found by filter_by on the key.
UpdateByPkResolver(k, _set, _inc) ==
    LET c == [NoCall EXCEPT !.op = "update_by_pk", !.pk = k, !.set = _set,
                            !.inc = _inc]
        filtered == [Statement EXCEPT !.crit = <<Cmp("id", "eq", <<k>>)>>]
        selection == update_selection(filtered, _set, _inc)
        result == UpdateResult(tx, selection)
    IN  \/ Inactive(c, <<"execute">>)
        \/ /\ txState = "active"
           /\ UNCHANGED <<db, txState>>
           /\ IF UpdateConflict(tx, selection)
              THEN /\ Record(c, Raised("IntegrityError", "UNIQUE constraint failed"),
                              <<"execute">>)
                   /\ UNCHANGED tx
              ELSE IF Len(result) = 0
              THEN /\ Record(c, None, <<"execute">>)
                   /\ UNCHANGED tx
              ELSE /\ tx' = AfterUpdate(tx, selection)
                   /\ Record(c, Instance(result[1]), <<"execute", "flush">>)

(***************************************************************************)
(* make_insert_resolver session call by session call, for both kinds of    *)
(* session.  With an AsyncSession each object is added or merged by a task *)
(* of asyncio.gather; a merge awaits the SELECT of Session.get and is      *)
(* resumed later.                                                          *)
(***************************************************************************)
SessionKinds == {"Session", "AsyncSession"}

NoJob == [pc |-> "idle", session |-> "Session", autoflush |-> TRUE,
          task |-> <<>>, queue |-> <<>>, finished |-> <<>>, result |-> <<>>,
          uow |-> UnitOfWork({}), models |-> <<>>, log |-> <<>>,
          returned |-> ""]

\* What the executor holds while the resolver runs: nothing yet from a
\* synchronous call, the coroutine insert_many() from an asynchronous one.
Running == Ret("running", <<>>, 0)
Awaitable == Ret("awaitable", <<>>, 0)

\* The session left with autoflush enabled.
autoflush_kept(j) == j

\* with session.no_autoflush
no_autoflush(j) == [j EXCEPT !.autoflush = FALSE]

\* The results of the tasks in the order the tasks finished.
as_completed(j) ==
    [k \in 1..Len(j.finished) |-> j.result[j.finished[k]][1]]

\* asyncio.gather (and the list comprehension of the synchronous path): the
\* results in the order of the arguments.
gather(j) == [i \in 1..Len(j.result) |-> j.result[i][1]]

\* The query of Session.get flushes the pending instances first when the
\* session autoflushes.
Autoflushes(j) == j.autoflush /\ Len(j.uow.new) > 0
Autoflush(j) ==
    IF Autoflushes(j)
    THEN [j EXCEPT !.log = Append(@, "autoflush"),
                   !.uow = UnitOfWork(Flushed(@))]
    ELSE j

\* session_add_object returns the instance it built.
Finish(j, i) ==
    [j EXCEPT !.task[i] = "done",
              !.result[i] = <<NewInstance(call.objects[i])>>,
              !.finished = Append(@, i)]

\* The exception of a failed flush leaves the resolver.
FlushRaises(j, log) ==
    /\ tx' = db
    /\ txState' = "inactive"
    /\ ret' = Raised("IntegrityError", "UNIQUE constraint failed")
    /\ calls' = log
    /\ job' = [j EXCEPT !.pc = "done", !.log = log]

\* The resolver is called: lines 321-331 and 338-340.
InsertCall(session, objects, on_conflict) ==
    /\ job.pc = "idle"
    /\ txState = "active"
    /\ job' = no_autoflush(
                 [NoJob EXCEPT !.pc = "adding", !.session = session,
                               !.task = [i \in 1..Len(objects) |-> "created"],
                               !.result = [i \in 1..Len(objects) |-> <<>>],
                               !.uow = UnitOfWork(tx),
                               !.log = <<"no_autoflush">>,
                               !.returned = IF session = "Session" THEN ""
                                            ELSE "awaitable"])
    /\ Record([NoCall EXCEPT !.op = "insert", !.objects = objects,
                             !.on_conflict = on_conflict],
              IF session = "Session" THEN Running ELSE Awaitable, <<>>)
    /\ UNCHANGED <<db, tx, txState>>

\* The awaiting task whose SELECT was issued last.
LastAwaiting(j) == j.queue[Len(j.queue)]

\* The awaiting task that is resumed next: the connection answers the
\* SELECTs in the order they were issued.
FirstAwaiting(j) == Head(j.queue)

Created(j) == {i \in 1..Len(j.task) : j.task[i] = "created"}
FirstCreated(j) == CHOOSE i \in Created(j) : \A k \in Created(j) : i <= k

\* Session.merge or Session.add has been called for object i.
Called(j) ==
    [j EXCEPT !.log = Append(@, IF Merge(call.on_conflict) THEN "merge" ELSE "add")]

\* The synchronous list comprehension: session_add_object for the next
\* object, from the call of merge or add to its return.
SyncAdd ==
    /\ job.pc = "adding"
    /\ job.session = "Session"
    /\ Created(job) # {}
    /\ LET i == FirstCreated(job)
           called == Called(job)
       IN  IF Merge(call.on_conflict) /\ Autoflushes(called)
                /\ FlushConflict(called.uow)
           THEN /\ FlushRaises(called, Append(called.log, "autoflush"))
                /\ UNCHANGED <<db, call, pre>>
           ELSE /\ job' = LET j == IF Merge(call.on_conflict)
                                   THEN Autoflush(called) ELSE called
                          IN  Finish([j EXCEPT !.uow =
                                         session_add_object(@, call.objects[i],
                                                            call.on_conflict)], i)
                /\ UNCHANGED <<db, tx, txState, call, ret, calls, pre>>

\* A task of gather starts: session.add returns at once, session.merge
\* awaits the SELECT of Session.get.
TaskStart(i) ==
    /\ job.pc = "adding"
    /\ job.session = "AsyncSession"
    /\ i \in Created(job)
    /\ LET called == Called(job)
       IN  IF ~Merge(call.on_conflict)
           THEN /\ job' = Finish([called EXCEPT !.uow =
                                     SessionAdd(@, call.objects[i])], i)
                /\ UNCHANGED <<db, tx, txState, call, ret, calls, pre>>
           ELSE IF Autoflushes(called) /\ FlushConflict(called.uow)
           THEN /\ FlushRaises(called, Append(called.log, "autoflush"))
                /\ UNCHANGED <<db, call, pre>>
           ELSE /\ job' = [Autoflush(called) EXCEPT !.task[i] = "awaiting",
                                                    !.queue = Append(@, i)]
                /\ UNCHANGED <<db, tx, txState, call, ret, calls, pre>>

\* The SELECT of task i has returned: merge copies the attributes onto the
\* row found or adds a new instance, and the task finishes.  (The keys of the
\* persistent rows do not change while the SELECT is awaited, so the row is
\* looked up here.)
TaskResume(i) ==
    /\ job.pc = "adding"
    /\ job.session = "AsyncSession"
    /\ i \in Range(job.queue)
    /\ job' = Finish([job EXCEPT !.uow = SessionMerge(@, call.objects[i]),
                                 !.queue = SelectSeq(@, LAMBDA k : k # i)], i)
    /\ UNCHANGED <<db, tx, txState, call, ret, calls, pre>>

\* Every object is added: the no_autoflush block is left with the models.
Gathered ==
    /\ job.pc = "adding"
    /\ \A i \in 1..Len(job.task) : job.task[i] = "done"
    /\ job' = [job EXCEPT !.pc = "flush", !.autoflush = TRUE,
                          !.models = gather(job)]
    /\ UNCHANGED <<db, tx, txState, call, ret, calls, pre>>

\* rv = InsDel(...); session.flush(); return rv
InsertFlush ==
    /\ job.pc = "flush"
    /\ LET log == Append(job.log, "flush")
       IN  IF FlushConflict(job.uow)
           THEN FlushRaises(job, log)
           ELSE /\ tx' = Flushed(job.uow)
                /\ txState' = "active"
                /\ ret' = InsDel(Len(job.models), job.models)
                /\ calls' = log
                /\ job' = [job EXCEPT !.pc = "done", !.log = log,
                                      !.returned = IF @ = "" THEN "value" ELSE @]
    /\ UNCHANGED <<db, call, pre>>

(***************************************************************************)
(* The owner of the session ends the transaction.                          *)
(***************************************************************************)
Commit ==
    /\ txState = "active"
    /\ db' = tx
    /\ UNCHANGED <<tx, txState>>
    /\ Record([NoCall EXCEPT !.op = "commit"], None, <<>>)

Rollback ==
    /\ tx' = db
    /\ txState' = "active"
    /\ UNCHANGED db
    /\ Record([NoCall EXCEPT !.op = "rollback"], None, <<>>)

Init ==
    /\ db \in Tables
    /\ rel = EmptyDatabase
    /\ job = NoJob
    /\ tx = db
    /\ txState = "active"
    /\ call = NoCall
    /\ ret = None
    /\ calls = <<>>
    /\ pre = [tx |-> db, db |-> db, txState |-> "active"]
    /\ ncalls = 0

\* The columns stay within the values of the model.
InRange(T) == T \in Tables

Resolver ==
    \/ \E k \in Ids : PkResolver(k)
    \/ \E objects \in Batches : \E on_conflict \in OnConflicts :
          InsertResolver(objects, on_conflict)
    \/ \E object \in Objects : \E on_conflict \in OnConflicts :
          InsertOneResolver(object, on_conflict)
    \/ \E where \in MutationWheres : DeleteResolver(where)
    \/ \E k \in Ids : DeleteByPkResolver(k)
    \/ \E where \in MutationWheres : \E _set \in Sets : \E _inc \in Incs :
          Len(_set) + Len(_inc) > 0 /\ UpdateResolver(where, _set, _inc)
    \/ \E k \in Ids : \E _set \in Sets : \E _inc \in Incs :
          Len(_set) + Len(_inc) > 0 /\ UpdateByPkResolver(k, _set, _inc)

Owner == Commit \/ Rollback

Next ==
    \/ /\ ncalls < MaxCalls
       /\ ncalls' = ncalls + 1
       /\ Resolver
       /\ InRange(tx')
       /\ UNCHANGED <<rel, job>>
    \/ /\ Owner
       /\ UNCHANGED <<ncalls, rel, job>>

Spec == Init /\ [][Next]_vars

(***************************************************************************)
(* The filter compiler on its own: root collection reads of a committed    *)
(* table, over a bounded family of Where Expressions.                      *)
(***************************************************************************)
Operators == {"_eq", "_neq", "_in", "_nin", "_lt", "_gt", "_lte", "_gte",
              "_is_null", "_like", "_nlike"}
OperatorNames == Operators \cup {"_regex", "eq"}

Scalars == {Null} \cup {<<v>> : v \in Vals}
Lists == UNION {[1..m -> Vals] : m \in 0..2}

\* Every operator entry on one column.
OpEntries ==
    {Op(o, a) : o \in OperatorNames \ {"_in", "_nin", "_is_null"}, a \in Scalars}
    \cup {Op(o, a) : o \in {"_in", "_nin"}, a \in Lists}
    \cup {OpFlag("_is_null", b) : b \in BOOLEAN}

\* Field Comparisons: none, one or two operators.
Comparisons ==
    {<<>>} \cup {<<e>> : e \in OpEntries}
    \cup {<<Op("_gte", <<0>>), e>> : e \in OpEntries}

\* The Where Expressions the combinators are applied to.
Leaves ==
    {EmptyWhere, Field("f", <<>>), Comb("_or", <<>>),
     Field("f", <<OpFlag("_is_null", TRUE)>>), Field("f", <<Op("_gt", <<0>>)>>),
     Field("id", <<Op("_neq", <<1>>)>>), Field("f", <<Op("_regex", <<0>>)>>)}
    \cup {Field("f", <<Op("_eq", <<v>>)>>) : v \in Vals}

Lists2(S) == UNION {[1..m -> S] : m \in 0..2}
Combined(S) ==
    {Comb("_not", <<w>>) : w \in S}
    \cup {Comb("_and", ws) : ws \in Lists2(S)}
    \cup {Comb("_or", ws) : ws \in Lists2(S)}

Nested ==
    {Comb("_not", <<w>>) : w \in Combined(Leaves)}
    \cup {Comb(c, <<Comb(d, <<u, v>>), w>>) :
            c \in {"_and", "_or"}, d \in {"_and", "_or"},
            u \in Leaves, v \in Leaves, w \in Leaves}

\* Several keys at one level.
MultiKey ==
    {Field("f", c) \o Comb("_not", <<w>>) : c \in Comparisons, w \in Leaves}

Wheres ==
    {Field("f", c) : c \in Comparisons} \cup Leaves \cup Combined(Leaves)
    \cup Nested \cup MultiKey

Read == \E where \in Wheres : ObjectResolver(where, <<>>, Null, Null)

\* One read of the table drawn by Init.
NextWhere ==
    /\ ncalls = 0
    /\ ncalls' = 1
    /\ Read
    /\ UNCHANGED <<rel, job>>

SpecWhere == Init /\ [][NextWhere]_vars

(***************************************************************************)
(* Ordering and pagination: root collection reads of a committed table     *)
(* with every combination of where, order, limit and offset.               *)
(***************************************************************************)
MaxSlice == 2

\* order: a list of single-key objects mapping a field name to asc or desc.
OrderKeys == {[name |-> c, direction |-> d] : c \in {"id", "f"}, d \in {"asc", "desc"}}
Orders == UNION {[1..m -> OrderKeys] : m \in 0..2}

\* limit and offset: absent, zero or positive.
Slices == {Null} \cup {<<k>> : k \in 0..MaxSlice}

PageWheres ==
    {EmptyWhere, Field("f", <<Op("_eq", <<0>>)>>),
     Field("f", <<OpFlag("_is_null", FALSE)>>),
     Field("id", <<Op("_neq", <<1>>)>>), Field("f", <<Op("_regex", <<0>>)>>)}

ReadPage ==
    \E where \in PageWheres : \E order \in Orders :
       \E limit \in Slices : \E offset \in Slices :
          ObjectResolver(where, order, limit, offset)

\* One read of the table drawn by Init.
NextPage ==
    /\ ncalls = 0
    /\ ncalls' = 1
    /\ ReadPage
    /\ UNCHANGED <<rel, job>>

SpecPage == Init /\ [][NextPage]_vars

(***************************************************************************)
(* One insert-many call followed step by step.  SpecAsync runs the tasks   *)
(* as the asyncio event loop does: tasks start in the order gather created *)
(* them and resume in the order their SELECTs were issued on the session's *)
(* one connection.  SpecGather lets the tasks start and resume in any      *)
(* order.                                                                  *)
(***************************************************************************)
InsertSteps ==
    \/ \E session \in SessionKinds : \E objects \in Batches :
          \E on_conflict \in OnConflicts : InsertCall(session, objects, on_conflict)
    \/ SyncAdd
    \/ Gathered
    \/ InsertFlush

EventLoop ==
    \/ Created(job) # {} /\ TaskStart(FirstCreated(job))
    \/ job.queue # <<>> /\ TaskResume(FirstAwaiting(job))

AnyOrder ==
    \/ \E i \in 1..Len(job.task) : TaskStart(i)
    \/ \E i \in 1..Len(job.task) : TaskResume(i)

NextAsync ==
    /\ InsertSteps \/ EventLoop
    /\ UNCHANGED <<ncalls, rel>>

NextGather ==
    /\ InsertSteps \/ AnyOrder
    /\ UNCHANGED <<ncalls, rel>>

SpecAsync == Init /\ [][NextAsync]_vars
SpecGather == Init /\ [][NextGather]_vars

(***************************************************************************)
(* Relationships: root collection reads of the related models and the      *)
(* to-many field resolver, on a committed database.                        *)
(***************************************************************************)
\* The WHERE clause names the author table through a to-one relationship,
\* which puts that table in the FROM list beside the selected model.
RECURSIVE UsesJoin(_)
UsesJoin(p) ==
    \/ p.t = "to_one"
    \/ /\ p.t \in {"not", "and", "or"}
       /\ \E i \in 1..Len(p.cs) : UsesJoin(p.cs[i])

FromRows(D, model, stmt) ==
    IF UsesJoin(WhereClause(stmt))
    THEN {Ext(r, b) : r \in D[model], b \in D.author}
    ELSE D[model]

\* The rows of a FROM list in scan order, as rows of the selected entity.
ScanKey(r) == IF "joined" \in DOMAIN r THEN r.joined.id ELSE 0
RECURSIVE ScanFrom(_)
ScanFrom(S) ==
    IF S = {} THEN <<>>
    ELSE LET r == CHOOSE x \in S : \A y \in S :
                     \/ x.id < y.id
                     \/ x.id = y.id /\ ScanKey(x) <= ScanKey(y)
         IN  <<Entity(r)>> \o ScanFrom(S \ {r})

\* Executing the SELECT of a root collection of one of the related models.
SelectModel(D, model, stmt) ==
    SortSlice(ScanFrom({r \in FromRows(D, model, stmt) :
                          Eval3(WhereClause(stmt), r) = "T"}), stmt)

\* make_object_resolver for one of the related models.
ModelResolver(model, where, order, limit, offset) ==
    LET c == [NoCall EXCEPT !.op = "object", !.model = model, !.where = where,
                            !.order = order, !.limit = limit, !.offset = offset]
        selection == resolve_filtered(Statement, where, order, limit, offset)
    IN  /\ UNCHANGED <<db, tx, txState, rel>>
        /\ IF Failed(selection)
           THEN Record(c, StatementRaised(selection), <<>>)
           ELSE IF StatementError(selection)
           THEN Record(c, StatementRaised(selection), <<"scalars">>)
           ELSE Record(c, Sequence(SelectModel(rel, model, selection)),
                       <<"scalars">>)

no_pk_filter(instance) == <<>>

\* pk_filter: the primary key of the parent instance.
pk_filter(instance) == <<Node("pk", "id", "eq", <<instance.id>>, <<>>)>>

\* select(field_model).select_from(root.__class__).join(relationship): the
\* rows of the related model, each with the parent row it is joined to.
JoinRows(D, root_model, field_name) ==
    UNION {{Ext(r, parent) : r \in RelatedRows(D, parent, field_name)} :
             parent \in D[root_model]}

\* make_many_resolver.  An argument that is not given is None (<<>>).
ManyResolver(root_model, root, field_name, where, order, limit, offset) ==
    LET c == [NoCall EXCEPT !.op = "many", !.model = root_model,
                            !.root = <<root>>, !.field = field_name,
                            !.where = where, !.order = order,
                            !.limit = limit, !.offset = offset]
        joined == [Statement EXCEPT !.crit = pk_filter(root)]
        selection == resolve_filtered(
                         joined,
                         IF where = <<>> THEN EmptyWhere ELSE where[1],
                         IF order = <<>> THEN <<>> ELSE order[1],
                         limit, offset)
        rows == {r \in JoinRows(rel, root_model, field_name) :
                   Eval3(WhereClause(selection), r) = "T"}
    IN  /\ UNCHANGED <<db, tx, txState, rel>>
        /\ IF where = <<>> /\ order = <<>> /\ limit = Null /\ offset = Null
           THEN Record(c, Sequence(Scan(RelatedRows(rel, root, field_name))), <<>>)
           ELSE IF Failed(selection)
           THEN Record(c, StatementRaised(selection), <<>>)
           ELSE IF StatementError(selection)
           THEN Record(c, StatementRaised(selection), <<"scalars">>)
           ELSE Record(c, Sequence(SortSlice(ScanFrom(rows), selection)),
                       <<"scalars">>)

\* The databases: primary keys are unique, a foreign key is NULL or names an
\* author, and article_tag pairs an article with a tag.
AuthorRows == [id : Ids, f : {<<v>> : v \in Vals}]
TagRows == {[id |-> k, f |-> <<0>>] : k \in Ids}
ArticleRows == [id : Ids, f : {<<v>> : v \in Vals},
                author_id : {Null} \cup {<<k>> : k \in Ids}]
Databases ==
    {D \in [author : {T \in SUBSET AuthorRows : PkUnique(T)},
            article : {T \in SUBSET ArticleRows : PkUnique(T)},
            tag : {TagRows},
            article_tag : SUBSET (Ids \X Ids)] :
        /\ \A a \in D.article :
              a.author_id = Null \/ a.author_id[1] \in KeysOf(D.author)
        /\ \A l \in D.article_tag : l[1] \in KeysOf(D.article)}

\* Where Expressions over a related model's columns, and over the
\* relationships of Article and of Author.
NestedWheres ==
    {EmptyWhere}
    \cup {Field("id", <<Op("_eq", <<k>>)>>) : k \in Ids}
    \cup {Field("f", <<Op("_eq", <<v>>)>>) : v \in Vals}
Rel(name, w) == Comb(name, <<w>>)
RelKeys(names) == {Rel(name, w) : name \in names, w \in NestedWheres}
RelWheres(names) ==
    {EmptyWhere, Field("f", <<Op("_eq", <<0>>)>>)}
    \cup RelKeys(names)
    \cup {Comb("_not", <<x>>) : x \in RelKeys(names)}
    \cup {Comb("_or", <<x, Field("f", <<Op("_eq", <<0>>)>>)>>) : x \in RelKeys(names)}
    \cup {x \o Field("f", <<Op("_eq", <<0>>)>>) : x \in RelKeys(names)}
ArticleWheres == RelWheres({"author", "tags"})
AuthorWheres == RelWheres({"articles"})

ManyArgs ==
    {[where |-> w, order |-> o, limit |-> l, offset |-> Null] :
        w \in {<<>>, <<EmptyWhere>>, <<Field("f", <<Op("_eq", <<0>>)>>)>>},
        o \in {<<>>, <<<<>>>>}, l \in {Null, <<0>>, <<1>>}}

ReadArticles ==
    \E where \in ArticleWheres : ModelResolver("article", where, <<>>, Null, Null)
ReadAuthors ==
    \E where \in AuthorWheres : ModelResolver("author", where, <<>>, Null, Null)
ReadMany ==
    \E field_name \in {"articles", "tags"} : \E a \in ManyArgs :
        LET root_model == IF field_name = "articles" THEN "author" ELSE "article"
        IN  \E root \in rel[root_model] :
               ManyResolver(root_model, root, field_name, a.where, a.order,
                            a.limit, a.offset)

InitRel ==
    /\ rel \in Databases
    /\ job = NoJob
    /\ db = {}
    /\ tx = {}
    /\ txState = "active"
    /\ call = NoCall
    /\ ret = None
    /\ calls = <<>>
    /\ pre = [tx |-> {}, db |-> {}, txState |-> "active"]
    /\ ncalls = 0

\* One read of the database drawn by InitRel.
NextRel ==
    /\ ncalls = 0
    /\ ncalls' = 1
    /\ ReadArticles \/ ReadAuthors \/ ReadMany
    /\ UNCHANGED job

SpecRel == InitRel /\ [][NextRel]_vars

(***************************************************************************)
(* Properties of the filter compiler (checked under SpecWhere).            *)
(***************************************************************************)
\* The root collection query with a Where Expression, and the rows it
\* returns from a table (none when the query raises).
Query(w) == resolve_filtered(Statement, w, <<>>, Null, Null)
Executes(w) == ~StatementError(Query(w))
Matched(T, w) == IF Executes(w) THEN Range(Select(T, Query(w))) ELSE {}

\* The last step was a root collection read with one key ...
ReadKey(key) == call.op = "object" /\ Len(call.where) = 1 /\ call.where[1].k = key
\* ... and it was a Field Comparison on f with exactly one operator.
ReadOneOp == ReadKey("f") /\ Len(call.where[1].ops) = 1
TheOp == call.where[1].ops[1]
Subs == call.where[1].subs
Returned == Range(ret.rows)

\* C5 (as claimed): {f: {_is_null: b}} returns exactly the rows whose f is
\* NULL when b is true and exactly the rows whose f is not NULL when b is
\* false.
C5_IsNullValueSelects ==
    (ReadOneOp /\ TheOp.op = "_is_null")
        => /\ ret.kind = "list"
           /\ Returned = {r \in pre.tx : (r.f = Null) = TheOp.flag}

\* C6 (as claimed): an operator outside the fixed set fails with an
\* InvalidOperator error and every operator of the set yields a predicate.
C6_InvalidOperatorError ==
    ReadOneOp
        => IF TheOp.op \in Operators THEN ret.kind = "list"
           ELSE ret.kind = "raise" /\ ret.exc = "InvalidOperator"

\* C6 (amended): an operator outside the fixed set fails with a plain
\* Exception whose message is "Invalid operator" and no predicate is
\* returned (no statement reaches the session); every operator of the set
\* yields a predicate and the query runs.
C6_InvalidOperatorException ==
    ReadOneOp
        => IF TheOp.op \in Operators
           THEN ret.kind = "list" /\ calls = <<"scalars">>
           ELSE /\ ret.kind = "raise"
                /\ ret.exc = "Exception"
                /\ ret.msg = "Invalid operator"
                /\ calls = <<>>

C6_Witness ==
    /\ ReadOneOp
    /\ TheOp.op = "_regex"
    /\ ret.kind = "raise"
    /\ pre.tx # {}

\* C7: the empty Where Expression compiles to the constant-true predicate and
\* the root collection query with it (which is also the query without a
\* where argument) returns every row of the table, each once.
C7_EmptyWhereMatchesAll ==
    (call.op = "object" /\ call.where = EmptyWhere)
        => /\ ret.kind = "list"
           /\ Returned = pre.tx
           /\ Len(ret.rows) = Cardinality(pre.tx)

C7_Witness ==
    /\ call.op = "object"
    /\ call.where = EmptyWhere
    /\ Len(ret.rows) = MaxId
    /\ \E r \in Returned : r.f = Null

Truth(w, r) == Eval3(WhereClause(Query(w)), r)

C10_OrIsUnion ==
    (ReadKey("_or") /\ ret.kind = "list")
        => Returned = UNION {Matched(pre.tx, Subs[i]) : i \in 1..Len(Subs)}

\* C11 (as claimed): {f: {_in: L}} returns exactly the rows whose f is a
\* member of L and {f: {_nin: L}} exactly the rows whose f is not a member of
\* L (a NULL is a member of no list).
C11_InNinMembership ==
    (ReadOneOp /\ TheOp.op \in {"_in", "_nin"})
        => /\ ret.kind = "list"
           /\ Returned = {r \in pre.tx :
                 (r.f # Null /\ r.f[1] \in Range(TheOp.arg)) = (TheOp.op = "_in")}

\* C11 (amended): {f: {_in: []}} returns no row and {f: {_nin: []}} every
\* row; {f: {_in: L}} returns exactly the rows whose f is not NULL and is a
\* member of L; {f: {_nin: L}} with L not empty returns exactly the rows
\* whose f is not NULL and is not a member of L.
C11_InNinSkipNull ==
    (ReadOneOp /\ TheOp.op \in {"_in", "_nin"})
        => /\ ret.kind = "list"
           /\ Len(ret.rows) = Cardinality(Returned)
           /\ Returned =
                IF TheOp.arg = <<>>
                THEN (IF TheOp.op = "_in" THEN {} ELSE pre.tx)
                ELSE {r \in pre.tx :
                        /\ r.f # Null
                        /\ (r.f[1] \in Range(TheOp.arg)) = (TheOp.op = "_in")}

C11_Witness ==
    /\ ReadOneOp
    /\ TheOp.op = "_nin"
    /\ TheOp.arg # <<>>
    /\ Returned # {}
    /\ \E r \in pre.tx : r.f = Null

C11_WitnessEmpty ==
    /\ ReadOneOp
    /\ TheOp.op = "_nin"
    /\ TheOp.arg = <<>>
    /\ \E r \in Returned : r.f = Null

(***************************************************************************)
(* Properties of relationship filters and of the to-many field resolver    *)
(* (checked under SpecRel).                                                *)
(***************************************************************************)
\* The rows of a related model that satisfy a Where Expression: those its
\* root collection query returns.
Satisfying(model, w) == Range(SelectModel(rel, model, Query(w)))

\* The last step was a root collection read whose first where key is one of
\* the named relationships; the Where Expression nested under that key.
ReadRelKey(names, keys) ==
    /\ call.op = "object"
    /\ Len(call.where) = keys
    /\ call.where[1].k \in names
NestedWhere == call.where[1].subs[1]
RelatedSatisfy(r) ==
    RelatedRows(rel, r, call.where[1].k)
        \cap Satisfying(entity(call.where[1].k), NestedWhere)

\* C12: a where key naming a one-to-many (articles) or many-to-many (tags)
\* relationship returns exactly the parent rows that have at least one
\* related row satisfying the nested Where Expression, each of them once.
C12_CollectionKeyExists ==
    ReadRelKey({"articles", "tags"}, 1)
        => /\ ret.kind = "list"
           /\ Returned = {r \in rel[call.model] : RelatedSatisfy(r) # {}}
           /\ Len(ret.rows) = Cardinality(Returned)

C12_Witness ==
    /\ ReadRelKey({"tags"}, 1)
    /\ NestedWhere # EmptyWhere
    /\ \E r \in Returned : Cardinality(RelatedSatisfy(r)) = MaxId
    /\ \E r \in rel.article : r \notin Returned
    /\ Len(ret.rows) = 1

\* ... and a parent whose related rows all fail the nested expression.
C12_WitnessNoneSatisfies ==
    /\ ReadRelKey({"articles", "tags"}, 1)
    /\ \E r \in rel[call.model] :
          /\ r \notin Returned
          /\ RelatedRows(rel, r, call.where[1].k) # {}

C13_WitnessNoRelatedRow ==
    /\ ReadRelKey({"author"}, 2)
    /\ Returned # {}
    /\ \E r \in rel.article : r.author_id = Null /\ r.f = <<0>>

\* The last step resolved a to-many relationship field of a parent row
\* with no filter: no argument at all (the loaded collection is returned),
\* or an empty where, with or without an empty order or a zero limit (the
\* relationship is queried again).
ManyUnfiltered ==
    /\ call.op = "many"
    /\ call.where \in {<<>>, <<EmptyWhere>>}
    /\ call.limit \in {Null, <<0>>}
    /\ call.offset = Null
FastPath == calls = <<>>

C17_WitnessFastPath ==
    /\ ManyUnfiltered
    /\ FastPath
    /\ Returned # {}
    /\ \E parent \in rel[call.model] :
          RelatedRows(rel, parent, call.field) \ Returned # {}

(***************************************************************************)
(* Properties of the resolvers on a session (checked under Spec).          *)
(***************************************************************************)
MutationOps == {"insert", "insert_one", "update", "update_by_pk", "delete",
                "delete_by_pk"}
\* The exceptions the persistence layer raises.
PersistenceErrors == {"IntegrityError", "DBAPIError", "PendingRollbackError"}
PersistenceRaised ==
    call.op \in MutationOps /\ ret.kind = "raise" /\ ret.exc \in PersistenceErrors

\* The unit of work an insert resolver hands to flush.
Inserting ==
    /\ call.op \in {"insert", "insert_one"}
    /\ pre.txState = "active"
Pending == AddObjects(UnitOfWork(pre.tx), call.objects, call.on_conflict)
BatchKeys == {call.objects[i].id : i \in 1..Len(call.objects)}
Repeated ==
    \E i \in 1..Len(call.objects) : \E j \in 1..Len(call.objects) :
        i # j /\ call.objects[i].id = call.objects[j].id

\* C1 (as claimed): on a usable session the by-primary-key read returns the
\* row when a row has the key and null, without an error, when none has.
C1_PkReadNullWhenAbsent ==
    (call.op = "by_pk" /\ pre.txState = "active")
        => IF call.pk \in KeysOf(pre.tx)
           THEN ret = Instance(RowOf(pre.tx, call.pk))
           ELSE ret = None

\* C2 (as claimed): when the persistence layer raises in a mutation
\* resolver, the resolver has called rollback, the error reaches the caller
\* and the database is as it was before the call.
C2_ExplicitRollback ==
    PersistenceRaised
        => /\ "rollback" \in Range(calls)
           /\ db = pre.db
           /\ tx = pre.tx

\* C2 (amended): when the persistence layer raises in a mutation resolver,
\* the resolver itself calls neither rollback nor commit; the error reaches
\* the caller (a conflict at flush is never turned into a result); the
\* committed rows are unchanged; and the transaction holds none of the failed
\* operation's writes: it is as before the call, or the session's failed
\* flush has rolled it back to the committed rows and left it inactive.
C2_ErrorPropagatesWithoutPartialWrites ==
    /\ (Inserting /\ FlushConflict(Pending))
          => ret.kind = "raise" /\ ret.exc = "IntegrityError"
    /\ PersistenceRaised
          => /\ "rollback" \notin Range(calls)
             /\ "commit" \notin Range(calls)
             /\ db = pre.db
             /\ IF txState = "inactive" /\ pre.txState = "active"
                THEN tx = db
                ELSE tx = pre.tx /\ txState = pre.txState

C2_Witness ==
    /\ call.op = "insert_one"
    /\ ret.exc = "IntegrityError"
    /\ pre.tx # pre.db
    /\ txState = "inactive"

C4_MergeUpserts ==
    (call.op = "insert" /\ pre.txState = "active" /\ call.on_conflict = <<TRUE>>)
        => /\ ret.kind = "InsDel"
           /\ PkUnique(tx)
           /\ KeysOf(tx) = KeysOf(pre.tx) \cup BatchKeys
           /\ Cardinality(tx) = Cardinality(pre.tx)
                                   + Cardinality(BatchKeys \ KeysOf(pre.tx))
           /\ \A i \in 1..Len(call.objects) :
                 (/\ call.objects[i].hasF
                  /\ \A j \in (i + 1)..Len(call.objects) :
                        call.objects[j].id # call.objects[i].id)
                    => RowOf(tx, call.objects[i].id).f = call.objects[i].f

(***************************************************************************)
(* Properties of ordering and pagination, on SpecPage.                     *)
(***************************************************************************)
\* A collection read that returned its rows.
PageRead == call.op = "object" /\ ret.kind = "list"

\* The rows satisfying the where argument of the call.
Filtered == Matched(pre.tx, call.where)

\* offset rows to drop, and the rows left after dropping them.
Dropped == IF call.offset = Null THEN 0 ELSE call.offset[1]
Remaining ==
    IF Cardinality(Filtered) > Dropped THEN Cardinality(Filtered) - Dropped ELSE 0

AtMost(n, m) == IF n < m THEN n ELSE m

\* a sorts strictly before b under the Order Expression: at the first key on
\* which they differ, a's value is the smaller (asc) or the larger (desc).
\* Where that key is NULL in either row the backend decides, and neither row
\* has to come first.
Precedes(order, a, b) ==
    \E i \in 1..Len(order) :
       LET x == CellOf(a, order[i].name)
           y == CellOf(b, order[i].name)
       IN  /\ \A j \in 1..(i - 1) :
                 CellOf(a, order[j].name) = CellOf(b, order[j].name)
           /\ x # Null /\ y # Null
           /\ IF order[i].direction = "asc" THEN x[1] < y[1] ELSE y[1] < x[1]

\* The returned sequence has no row twice and no pair out of order.
Sorted ==
    /\ Len(ret.rows) = Cardinality(Returned)
    /\ \A i, j \in 1..Len(ret.rows) :
          i < j => ~Precedes(call.order, ret.rows[j], ret.rows[i])

\* C14: a limit of 0 gives the result of the same read without a limit and an
\* offset of 0 the result of the same read without an offset; a positive
\* limit keeps that many of the rows left after the offset, a positive
\* offset drops that many of the filtered rows.
C14_ZeroSlicesNothing ==
    PageRead =>
        /\ call.limit = <<0>> =>
              /\ ret.rows = Select(pre.tx, resolve_filtered(Statement, call.where,
                                           call.order, Null, call.offset))
              /\ Len(ret.rows) = Remaining
        /\ call.offset = <<0>> =>
              /\ ret.rows = Select(pre.tx, resolve_filtered(Statement, call.where,
                                           call.order, call.limit, Null))
              /\ Returned \subseteq Filtered
        /\ (call.limit # Null /\ call.limit[1] > 0) =>
              Len(ret.rows) = AtMost(call.limit[1], Remaining)
        /\ call.limit = Null => Len(ret.rows) = Remaining

C14_Witness ==
    /\ PageRead
    /\ call.limit = <<0>>
    /\ call.offset = <<0>>
    /\ Cardinality(Filtered) = 2
    /\ Len(ret.rows) = 2

C14_WitnessPositive ==
    /\ PageRead
    /\ call.limit = <<1>>
    /\ call.offset = <<1>>
    /\ Cardinality(Filtered) = 2
    /\ Len(ret.rows) = 1

\* The returned rows are a slice of the filtered rows in sorted order: limit
\* rows (keep) after the dropped ones, the dropped rows not after any
\* returned row and the rows left out at the end not before any other.
SliceOfSorted(keep) ==
    /\ Returned \subseteq Filtered
    /\ Sorted
    /\ Len(ret.rows) = AtMost(keep, Remaining)
    /\ \E skipped \in SUBSET (Filtered \ Returned) :
          /\ Cardinality(skipped) = AtMost(Dropped, Cardinality(Filtered))
          /\ \A s \in skipped : \A r \in Returned : ~Precedes(call.order, r, s)
          /\ \A t \in Filtered \ (Returned \cup skipped) :
                \A r \in Returned \cup skipped : ~Precedes(call.order, t, r)

\* C15 (as claimed): a read returns the rows satisfying where, sorted by
\* order, without the first offset rows and with at most limit rows.
C15_FilterSortSlice ==
    PageRead =>
        SliceOfSorted(IF call.limit = Null THEN Cardinality(Filtered)
                      ELSE call.limit[1])

\* C15 (amended): a read returns the rows satisfying where, sorted by order,
\* without the first offset rows and with at most limit rows, a limit of 0
\* keeping every row.
C15_FilterSortSliceZeroUnset ==
    PageRead =>
        SliceOfSorted(IF call.limit = Null \/ call.limit = <<0>>
                      THEN Cardinality(Filtered) ELSE call.limit[1])

\* The slice differs from the slice of the unsorted and of the unfiltered rows.
C15_Witness ==
    /\ PageRead
    /\ call.where = Field("f", <<OpFlag("_is_null", FALSE)>>)
    /\ call.order = <<[name |-> "id", direction |-> "desc"]>>
    /\ call.limit = <<1>>
    /\ call.offset = <<1>>
    /\ Cardinality(pre.tx) = 2
    /\ Cardinality(Filtered) = 2
    /\ Len(ret.rows) = 1
    /\ ret.rows[1].id = 1

C15_WitnessFilteredFirst ==
    /\ PageRead
    /\ call.where = Field("id", <<Op("_neq", <<1>>)>>)
    /\ call.order = <<>>
    /\ call.limit = <<1>>
    /\ call.offset = Null
    /\ Cardinality(pre.tx) = 2
    /\ Len(ret.rows) = 1
    /\ ret.rows[1].id = 2

\* C16: a read with an Order Expression and no where, limit or offset
\* returns every row of the table once, and no returned row stands after a
\* row it precedes at the first listed key on which the two differ.
C16_LexicographicOrder ==
    (/\ PageRead
     /\ call.where = EmptyWhere
     /\ call.limit = Null
     /\ call.offset = Null
     /\ Len(call.order) > 0)
        => /\ Returned = pre.tx
           /\ Sorted

\* The second key breaks a tie of the first, in its own direction.
C16_Witness ==
    /\ PageRead
    /\ call.where = EmptyWhere
    /\ call.limit = Null
    /\ call.offset = Null
    /\ call.order = <<[name |-> "f", direction |-> "asc"],
                      [name |-> "id", direction |-> "desc"]>>
    /\ Len(ret.rows) = 2
    /\ ret.rows[1].f = ret.rows[2].f
    /\ ret.rows[1].id = 2
    /\ ret.rows[2].id = 1

\* The first key decides against the second.
C16_WitnessFirstKeyWins ==
    /\ PageRead
    /\ call.where = EmptyWhere
    /\ call.limit = Null
    /\ call.offset = Null
    /\ call.order = <<[name |-> "f", direction |-> "desc"],
                      [name |-> "id", direction |-> "asc"]>>
    /\ Len(ret.rows) = 2
    /\ ret.rows[1] = [id |-> 2, f |-> <<1>>]
    /\ ret.rows[2] = [id |-> 1, f |-> <<0>>]

(***************************************************************************)
(* Properties of delete and update, on Spec.  A call is judged in a        *)
(* session whose transaction is usable (pre.txState = "active").           *)
(***************************************************************************)
\* C18: delete-by-primary-key of a key no row has returns None without
\* raising and leaves the table as it was; of a key a row has, it returns
\* that row as it was before the call, and afterwards the table holds
\* exactly the other rows, unchanged.
C18_DeleteByPk ==
    (call.op = "delete_by_pk" /\ pre.txState = "active") =>
        IF call.pk \notin KeysOf(pre.tx)
        THEN /\ ret.kind = "None"
             /\ tx = pre.tx
        ELSE /\ ret.kind = "instance"
             /\ ret.rows = <<RowOf(pre.tx, call.pk)>>
             /\ call.pk \notin KeysOf(tx)
             /\ tx = {r \in pre.tx : r.id # call.pk}

C18_Witness ==
    /\ call.op = "delete_by_pk"
    /\ pre.txState = "active"
    /\ Cardinality(pre.tx) = 2
    /\ call.pk \in KeysOf(pre.tx)
    /\ ret.kind = "instance"
    /\ Cardinality(tx) = 1

C18_WitnessNoRow ==
    /\ call.op = "delete_by_pk"
    /\ pre.txState = "active"
    /\ pre.tx # {}
    /\ call.pk \notin KeysOf(pre.tx)
    /\ ret.kind = "None"

\* A delete or update by predicate whose statement runs.
PredicateCall(op) ==
    call.op = op /\ pre.txState = "active" /\ Executes(call.where)

\* C19: delete-by-predicate removes the rows its where argument selects and
\* no other; returning holds each removed row once, as it was before the
\* call, affected_rows is the length of returning, and with no row selected
\* the call returns affected_rows 0 and an empty returning.
C19_DeleteRemovesMatching ==
    PredicateCall("delete") =>
        /\ ret.kind = "InsDel"
        /\ tx = pre.tx \ Matched(pre.tx, call.where)
        /\ Returned = Matched(pre.tx, call.where)
        /\ Len(ret.rows) = Cardinality(Returned)
        /\ ret.affected_rows = Len(ret.rows)
        /\ Matched(pre.tx, call.where) = {} =>
              ret.affected_rows = 0 /\ ret.rows = <<>> /\ tx = pre.tx

C19_Witness ==
    /\ PredicateCall("delete")
    /\ Cardinality(pre.tx) = 2
    /\ Cardinality(Matched(pre.tx, call.where)) = 1
    /\ ret.affected_rows = 1
    /\ Cardinality(tx) = 1

C19_WitnessNoMatch ==
    /\ PredicateCall("delete")
    /\ pre.tx # {}
    /\ Matched(pre.tx, call.where) = {}
    /\ ret.kind = "InsDel"
    /\ ret.affected_rows = 0

\* The call is an update with _inc on column f alone.
IncCall ==
    /\ PredicateCall("update")
    /\ call.set = <<>>
    /\ Len(call.inc) = 1
    /\ call.inc[1].col = "f"

\* A row after d was added to its column f (NULL stays NULL).
Incremented(r) ==
    [r EXCEPT !.f = IF r.f = Null THEN Null ELSE <<r.f[1] + call.inc[1].val[1]>>]

\* C20: update-by-predicate with _inc adds the increment to the column of
\* the rows its where argument selects before the update, leaves the other
\* rows unchanged, returns the selected rows with their new values and
\* reports their number as affected_rows.
C20_IncUpdatesMatching ==
    IncCall =>
        /\ ret.kind = "InsDel"
        /\ Returned = {Incremented(r) : r \in Matched(pre.tx, call.where)}
        /\ tx = (pre.tx \ Matched(pre.tx, call.where)) \cup Returned
        /\ ret.affected_rows = Cardinality(Matched(pre.tx, call.where))
        /\ ret.affected_rows = Len(ret.rows)

\* The where argument is on the incremented column: the rows are selected by
\* their values before the update.
C20_Witness ==
    /\ IncCall
    /\ call.where = Field("f", <<Op("_eq", <<0>>)>>)
    /\ pre.tx = {[id |-> 1, f |-> <<0>>], [id |-> 2, f |-> <<0>>]}
    /\ ret.affected_rows = 2
    /\ tx = {[id |-> 1, f |-> <<1>>], [id |-> 2, f |-> <<1>>]}

C20_WitnessOthersUnchanged ==
    /\ IncCall
    /\ pre.tx = {[id |-> 1, f |-> <<0>>], [id |-> 2, f |-> <<0>>]}
    /\ ret.affected_rows = 1
    /\ tx = {[id |-> 1, f |-> <<1>>], [id |-> 2, f |-> <<0>>]}

\* The row with the key of the call, before the call.
Target == RowOf(pre.tx, call.pk)

\* The key the call assigns to the row, if it assigns one.
NewKey == {call.set[i].val[1] : i \in {j \in 1..Len(call.set) : call.set[j].col = "id"}}

\* C21: update-by-primary-key of a key no row has returns None and leaves
\* the table as it was; of a key a row has, it returns that one row with its
\* new values and the table afterwards is the other rows, unchanged, and
\* that row.  An update giving the row the key of another row raises
\* IntegrityError and changes nothing.
C21_UpdateByPk ==
    (call.op = "update_by_pk" /\ pre.txState = "active") =>
        IF call.pk \notin KeysOf(pre.tx)
        THEN ret.kind = "None" /\ tx = pre.tx
        ELSE IF NewKey \cap (KeysOf(pre.tx) \ {call.pk}) # {}
        THEN ret.kind = "raise" /\ ret.exc = "IntegrityError" /\ tx = pre.tx
        ELSE /\ ret.kind = "instance"
             /\ Len(ret.rows) = 1
             /\ tx = {r \in pre.tx : r.id # call.pk} \cup {ret.rows[1]}
             /\ Cardinality(tx) = Cardinality(pre.tx)
             /\ ret.rows[1].id = (IF NewKey = {} THEN call.pk
                                  ELSE CHOOSE k \in NewKey : TRUE)
             /\ ret.rows[1].f =
                   (IF Len(call.set) = 1 /\ call.set[1].col = "f"
                    THEN call.set[1].val
                    ELSE IF Len(call.inc) = 1 /\ Target.f # Null
                    THEN <<Target.f[1] + call.inc[1].val[1]>>
                    ELSE Target.f)

C21_Witness ==
    /\ call.op = "update_by_pk"
    /\ pre.txState = "active"
    /\ pre.tx = {[id |-> 1, f |-> <<0>>], [id |-> 2, f |-> <<0>>]}
    /\ call.pk = 2
    /\ Len(call.inc) = 1
    /\ ret.kind = "instance"
    /\ tx = {[id |-> 1, f |-> <<0>>], [id |-> 2, f |-> <<1>>]}

C21_WitnessNoRow ==
    /\ call.op = "update_by_pk"
    /\ pre.txState = "active"
    /\ pre.tx # {}
    /\ call.pk \notin KeysOf(pre.tx)
    /\ ret.kind = "None"

\* A mutation resolver returned successfully and changed rows.
Wrote ==
    /\ call.op \in MutationOps
    /\ ret.kind \in {"InsDel", "instance"}
    /\ tx # pre.tx

\* C23 (as claimed): after a mutation resolver returned successfully with
\* changed rows, its writes are committed: the committed rows are the rows
\* of the transaction.
C23_ResolverCommits ==
    Wrote => db = tx

\* C23 (amended): a mutation resolver that returns successfully with changed
\* rows has flushed as its last session call and has not committed: the
\* committed rows are as before the call; they become the rows of the
\* transaction when the owner of the session commits.
C23_ResolverFlushesOwnerCommits ==
    /\ Wrote
          => /\ calls[Len(calls)] = "flush"
             /\ "commit" \notin Range(calls)
             /\ db = pre.db
    /\ call.op = "commit" => db = pre.tx /\ tx = pre.tx

C23_Witness ==
    /\ Wrote
    /\ call.op = "delete"
    /\ pre.tx = pre.db
    /\ db # tx

C23_WitnessOwnerCommits ==
    /\ call.op = "commit"
    /\ pre.tx # pre.db
    /\ db = tx

(***************************************************************************)
(* Properties of insert-many followed step by step, on SpecAsync and       *)
(* SpecGather.                                                             *)
(***************************************************************************)
\* What the synchronous insert-many hands to flush, from the arguments and
\* the rows of the transaction at the call.
Handed == AddObjects(UnitOfWork(pre.tx), call.objects, call.on_conflict)
Instances == [i \in 1..Len(call.objects) |-> NewInstance(call.objects[i])]

C22_WitnessBothAwaiting ==
    /\ job.pc = "adding"
    /\ job.session = "AsyncSession"
    /\ job.queue = <<1, 2>>

C22_WitnessSync ==
    /\ job.pc = "done"
    /\ job.session = "Session"
    /\ call.on_conflict = <<TRUE>>
    /\ Len(call.objects) = 2
    /\ ret.kind = "InsDel"
    /\ job.returned = "value"

\* C24: a successful insert-many returns affected_rows equal to the number
\* of input objects and in returning, at each position, the instance built
\* from the input object at that position, in whatever order the tasks of an
\* asynchronous call started and finished.
C24_ReturningInInputOrder ==
    (job.pc = "done" /\ ret.kind = "InsDel") =>
        /\ ret.affected_rows = Len(call.objects)
        /\ Len(ret.rows) = Len(call.objects)
        /\ \A i \in 1..Len(call.objects) :
              /\ ret.rows[i].id = call.objects[i].id
              /\ call.objects[i].hasF => ret.rows[i].f = call.objects[i].f

\* The second task finished first.
C24_Witness ==
    /\ job.pc = "done"
    /\ job.session = "AsyncSession"
    /\ ret.kind = "InsDel"
    /\ job.finished = <<2, 1>>
    /\ call.objects[1].id = 1
    /\ call.objects[2].id = 2
    /\ ret.rows[1].id = 1

C24_WitnessMerge ==
    /\ job.pc = "done"
    /\ job.session = "AsyncSession"
    /\ call.on_conflict = <<TRUE>>
    /\ ret.kind = "InsDel"
    /\ job.finished = <<2, 1>>
    /\ call.objects[1].id # call.objects[2].id

\* C28: while the objects of an insert-many are added or merged no flush
\* happens and no error is raised; the call flushes once, after the last add
\* or merge, and two objects of the batch with one new key make that flush,
\* and nothing before it, raise.
C28_OneFlushAfterLastAdd ==
    /\ job.pc \in {"adding", "flush"} =>
          /\ "flush" \notin Range(job.log)
          /\ "autoflush" \notin Range(job.log)
          /\ ret.kind # "raise"
          /\ tx = pre.tx
    /\ job.pc = "done" =>
          /\ calls = job.log
          /\ Len(calls) = Len(call.objects) + 2
          /\ calls[1] = "no_autoflush"
          /\ \A i \in 2..(Len(calls) - 1) : calls[i] \in {"add", "merge"}
          /\ calls[Len(calls)] = "flush"
          /\ (Repeated /\ BatchKeys \cap KeysOf(pre.tx) = {}) =>
                ret.kind = "raise" /\ ret.exc = "IntegrityError"

\* Two merged objects with one new key: the conflict shows at the flush.
C28_Witness ==
    /\ job.pc = "done"
    /\ call.on_conflict = <<TRUE>>
    /\ Len(call.objects) = 2
    /\ call.objects[1].id = call.objects[2].id
    /\ call.objects[1].id \notin KeysOf(pre.tx)
    /\ ret.kind = "raise"
    /\ calls = <<"no_autoflush", "merge", "merge", "flush">>

\* The second merge runs while the first object is pending.
C28_WitnessPending ==
    /\ job.pc = "adding"
    /\ call.on_conflict = <<TRUE>>
    /\ Len(job.uow.new) = 1
    /\ job.log = <<"no_autoflush", "merge", "merge">>
    /\ ret.kind # "raise"

(***************************************************************************)
(* Properties of insert-one and of the instances inserts return, on Spec.  *)
(***************************************************************************)
InsertOne == call.op = "insert_one" /\ pre.txState = "active"

\* C25: insert-one of an object with a new key returns the instance itself,
\* not an envelope, and leaves the table with the rows it had and one more
\* row holding the provided values; for every object its rows and
\* transaction state afterwards are those insert-many leaves for the
\* one-element list.
C25_InsertOneNewKey ==
    /\ (InsertOne /\ call.objects[1].id \notin KeysOf(pre.tx)) =>
          /\ ret = Instance(NewInstance(call.objects[1]))
          /\ tx = pre.tx \cup {NewInstance(call.objects[1])}
          /\ Cardinality(tx) = Cardinality(pre.tx) + 1
          /\ db = pre.db
    /\ InsertOne =>
          IF FlushConflict(Handed)
          THEN ret.kind = "raise" /\ tx = pre.db /\ txState = "inactive"
          ELSE ret.kind = "instance" /\ tx = Flushed(Handed) /\ txState = "active"

C25_Witness ==
    /\ InsertOne
    /\ pre.tx = {[id |-> 1, f |-> <<0>>]}
    /\ call.objects[1] = [id |-> 2, f |-> <<1>>, hasF |-> TRUE]
    /\ ret.kind = "instance"
    /\ tx = {[id |-> 1, f |-> <<0>>], [id |-> 2, f |-> <<1>>]}

\* C29 (as claimed): after a successful insert with merge=true every
\* returned instance has the field values of the row stored under its key,
\* the fields the input object did not provide included.
C29_MergedInstancesMatchRows ==
    (/\ Inserting
     /\ call.on_conflict = <<TRUE>>
     /\ ret.kind \in {"InsDel", "instance"})
        => \A i \in 1..Len(ret.rows) :
              /\ ret.rows[i].id \in KeysOf(tx)
              /\ ret.rows[i] = RowOf(tx, ret.rows[i].id)

(***************************************************************************)
(* Several keys at one level and several operators on one field, on        *)
(* SpecWhere (fields and combinators) and SpecRel (relationships).         *)
(***************************************************************************)
\* {_and: [{k1: v1}, ..., {kn: vn}]} for the keys of the where argument.
KeysUnderAnd ==
    Comb("_and", [i \in 1..Len(call.where) |-> <<call.where[i]>>])

\* The field comparison of the where argument with its i-th operator alone.
OneOperator(i) == Field(call.where[1].k, <<call.where[1].ops[i]>>)

\* C26: a read whose where argument has several keys runs exactly when the
\* read of {_and: [one expression per key]} runs and returns the same rows;
\* a read of one field with several operators that all run returns exactly
\* the rows each operator alone returns, and fails when one of them fails.
C26_KeysAndOperatorsAnded ==
    /\ (call.op = "object" /\ Len(call.where) > 1) =>
          /\ (ret.kind = "list") = Executes(KeysUnderAnd)
          /\ ret.kind = "list" =>
                /\ Returned = Matched(pre.tx, KeysUnderAnd)
                /\ Len(ret.rows) = Cardinality(Returned)
    /\ (call.op = "object" /\ Len(call.where) = 1
            /\ Len(call.where[1].ops) > 1) =>
          /\ (ret.kind = "list") =
                \A i \in 1..Len(call.where[1].ops) : Executes(OneOperator(i))
          /\ ret.kind = "list" =>
                /\ \A r \in pre.tx :
                      r \in Returned <=>
                         \A i \in 1..Len(call.where[1].ops) :
                            r \in Matched(pre.tx, OneOperator(i))
                /\ Len(ret.rows) = Cardinality(Returned)

\* Two operators on one field, each matching a row the other does not.
C26_Witness ==
    /\ call.op = "object"
    /\ call.where = Field("f", <<Op("_gte", <<0>>), Op("_neq", <<0>>)>>)
    /\ pre.tx = {[id |-> 1, f |-> <<0>>], [id |-> 2, f |-> <<1>>]}
    /\ ret.kind = "list"
    /\ Returned = {[id |-> 2, f |-> <<1>>]}

\* A field key and a combinator key at one level.
C26_WitnessTwoKeys ==
    /\ call.op = "object"
    /\ Len(call.where) = 2
    /\ call.where[1].k = "f"
    /\ call.where[2].k = "_not"
    /\ ret.kind = "list"
    /\ Cardinality(pre.tx) = 2
    /\ Cardinality(Returned) = 1

\* The same for a relationship key beside a field key, on SpecRel.
RelationshipKeysAnded ==
    (call.op = "object" /\ call.model \in {"article", "author"}
        /\ Len(call.where) > 1) =>
          /\ (ret.kind = "list") = Executes(KeysUnderAnd)
          /\ ret.kind = "list" =>
                ret.rows = SelectModel(rel, call.model, Query(KeysUnderAnd))

RelationshipKeysAndedWitness ==
    /\ call.op = "object"
    /\ call.model = "article"
    /\ Len(call.where) = 2
    /\ call.where[1].k = "author"
    /\ Len(ret.rows) = 1
    /\ Cardinality(rel.article) = 2

(***************************************************************************)
(* _inc and _set together, on Spec.                                        *)
(***************************************************************************)
\* The literals _set gives column c and the deltas _inc gives it.
SetTo(c) == {call.set[i].val : i \in {j \in 1..Len(call.set) : call.set[j].col = c}}
IncBy(c) == {call.inc[i].val : i \in {j \in 1..Len(call.inc) : call.inc[j].col = c}}

\* Column c of a row after the update: the literal when _set names c, else
\* the old value plus the delta when _inc names c (NULL stays NULL), else
\* the old value.
ExpectedCell(old, c) ==
    IF SetTo(c) # {} THEN CHOOSE v \in SetTo(c) : TRUE
    ELSE IF IncBy(c) # {} /\ CellOf(old, c) # Null
    THEN <<CellOf(old, c)[1] + (CHOOSE d \in IncBy(c) : TRUE)[1]>>
    ELSE CellOf(old, c)
Expected(old) == [id |-> ExpectedCell(old, "id")[1], f |-> ExpectedCell(old, "f")]

\* The rows an update is applied to.
Targets ==
    IF call.op = "update" THEN Matched(pre.tx, call.where)
    ELSE {r \in pre.tx : r.id = call.pk}

\* C27: after a successful update, by predicate or by primary key, every
\* row it was applied to has in each column the _set literal if _set names
\* the column, else its old value plus the _inc delta if _inc names it, else
\* its old value; these rows are returned and all other rows are unchanged.
C27_IncThenSet ==
    (/\ call.op \in {"update", "update_by_pk"}
     /\ pre.txState = "active"
     /\ ret.kind \in {"InsDel", "instance"})
        => /\ Returned = {Expected(old) : old \in Targets}
           /\ tx = (pre.tx \ Targets) \cup Returned

\* A column named in both ends as the literal.
C27_Witness ==
    /\ call.op = "update"
    /\ ret.kind = "InsDel"
    /\ call.inc = <<Assign("f", <<1>>)>>
    /\ call.set = <<Assign("f", <<0>>)>>
    /\ pre.tx = {[id |-> 1, f |-> <<0>>], [id |-> 2, f |-> <<1>>]}
    /\ tx = {[id |-> 1, f |-> <<0>>], [id |-> 2, f |-> <<0>>]}

\* One column incremented, another set.
C27_WitnessTwoColumns ==
    /\ call.op = "update_by_pk"
    /\ ret.kind = "instance"
    /\ call.inc = <<Assign("f", <<1>>)>>
    /\ call.set = <<Assign("id", <<2>>)>>
    /\ pre.tx = {[id |-> 1, f |-> <<0>>]}
    /\ tx = {[id |-> 2, f |-> <<1>>]}

\* C30: the delete-by-predicate resolver called without a where argument
\* (the default, the empty Where Expression) deletes every row of the table
\* and returns all of them, affected_rows being the former number of rows.
C30_DeleteWithoutWhere ==
    (call.op = "delete" /\ call.where = EmptyWhere /\ pre.txState = "active")
        => /\ ret.kind = "InsDel"
           /\ tx = {}
           /\ Returned = pre.tx
           /\ ret.affected_rows = Cardinality(pre.tx)
           /\ Len(ret.rows) = Cardinality(pre.tx)

C30_Witness ==
    /\ call.op = "delete"
    /\ call.where = EmptyWhere
    /\ pre.txState = "active"
    /\ Cardinality(pre.tx) = 2
    /\ ret.affected_rows = 2
    /\ tx = {}

====
